---------------------------- MODULE Spec2Model ----------------------------
(***************************************************************************)
(* Trip Entry Form (src/trip_form.py): a Streamlit script over one SQLite  *)
(* table `trips`.  Every user interaction re-runs the script from top to   *)
(* bottom; a run is modelled as the sequence of its statements that touch  *)
(* the database or the page:                                               *)
(*   form handler -> INSERT -> commit -> success/stop                      *)
(*   view (SELECT, filter, number) -> delete handler -> DELETE -> commit   *)
(*   -> success/stop, or -> export.                                        *)
(* One browser session drives the script, so runs do not overlap.          *)
(* Text values on which the code does character work (times, dates, sheet  *)
(* names, stripped inputs) are tuples of one-character strings.            *)
(***************************************************************************)
EXTENDS Integers, Sequences, FiniteSets, TLC

VARIABLES
    store,          \* committed rows of table trips
    seq,            \* sqlite_sequence of trips: largest id ever assigned
    txn,            \* statement executed on conn and not yet committed
    pc,             \* position of the running script ("idle": no run)
    submitted,      \* st.form_submit_button("Submit")
    selected_driver, out_time_24h, in_time_24h, out_km, in_km, texts,
                    \* values of the form widgets in this run
    driver_filter,  \* "Select Driver to View"
    sno_to_delete,  \* "Enter S.No. to Delete"
    delete_clicked, \* st.button("Delete Trip")
    df,             \* get_all_trips() of this run
    filtered_df,    \* the numbered listing of this run
    trip_id,        \* id resolved by the delete handler (0: none)
    excel_data,     \* sheets written by convert_df_to_excel
    page,           \* elements and messages rendered by the last run
    shown_time      \* an Out Time cell as the listing renders it

vars == <<store, seq, txn, pc, submitted, selected_driver, out_time_24h,
          in_time_24h, out_km, in_km, texts, driver_filter, sno_to_delete,
          delete_clicked, df, filtered_df, trip_id, excel_data, page,
          shown_time>>

widget_vars == <<submitted, selected_driver, out_time_24h, in_time_24h,
                 out_km, in_km, texts, driver_filter, sno_to_delete,
                 delete_clicked>>

---------------------------------------------------------------------------
(* Bounds of the model.                                                    *)

\* Largest surrogate id the model lets AUTOINCREMENT assign.
MaxId == 3

---------------------------------------------------------------------------
(* Characters, numbers and dates.                                          *)

DigitChars == <<"0", "1", "2", "3", "4", "5", "6", "7", "8", "9">>

\* f"{n:02d}" for 0 <= n <= 99
Pad2(n) == <<DigitChars[(n \div 10) + 1], DigitChars[(n % 10) + 1]>>

\* f"{n:04d}" for 0 <= n <= 9999, as %Y prints a year
Pad4(n) == Pad2(n \div 100) \o Pad2(n % 100)

DigitVal(ch) == CHOOSE n \in 0..9 : DigitChars[n + 1] = ch

\* date.strftime("%Y-%m-%d")
FormatDate(d) == Pad4(d.year) \o <<"-">> \o Pad2(d.month) \o <<"-">> \o Pad2(d.day)

IsSpace(ch) == ch \in {" ", "\t", "\n"}

RECURSIVE LStrip(_)
LStrip(s) == IF s # <<>> /\ IsSpace(Head(s)) THEN LStrip(Tail(s)) ELSE s

RECURSIVE RStrip(_)
RStrip(s) ==
    IF s # <<>> /\ IsSpace(s[Len(s)]) THEN RStrip(SubSeq(s, 1, Len(s) - 1)) ELSE s

\* str.strip()
Strip(s) == RStrip(LStrip(s))

---------------------------------------------------------------------------
(* Time options.                                                           *)

\* datetime.strptime(t24, "%H:%M"): the (hour, minute) of an HH:MM text
strptime(t24) ==
    [hour   |-> 10 * DigitVal(t24[1]) + DigitVal(t24[2]),
     minute |-> 10 * DigitVal(t24[4]) + DigitVal(t24[5])]

\* Variant of strftime_12h that prints hour mod 12 as it is.
strftime_12h_ZeroHour(t) ==
    Pad2(t.hour % 12) \o <<":">> \o Pad2(t.minute) \o <<" ">>
    \o (IF t.hour < 12 THEN <<"A", "M">> ELSE <<"P", "M">>)

\* dt_obj.strftime("%I:%M %p")
strftime_12h(t) ==
    LET h12 == IF t.hour % 12 = 0 THEN 12 ELSE t.hour % 12
    IN  Pad2(h12) \o <<":">> \o Pad2(t.minute) \o <<" ">>
        \o (IF t.hour < 12 THEN <<"A", "M">> ELSE <<"P", "M">>)

format_time_12h(t24) == strftime_12h(strptime(t24))

Minutes == <<0, 15, 30, 45>>

\* the (t_24h, t_12h) pairs in the order the two loops append them
generate_time_options ==
    [i \in 1..(24 * Len(Minutes)) |->
        LET hour   == (i - 1) \div Len(Minutes)
            minute == Minutes[((i - 1) % Len(Minutes)) + 1]
            t_24h  == Pad2(hour) \o <<":">> \o Pad2(minute)
        IN  <<t_24h, strftime_12h(strptime(t_24h))>>]

time_options == generate_time_options

\* options=[opt[0] for opt in time_options]
TimeValues == {time_options[i][1] : i \in DOMAIN time_options}

---------------------------------------------------------------------------
(* Constants of the program and the inputs the model enumerates.           *)

Prem   == <<"P", "r", "e", "m">>
Ajith  == <<"A", "j", "i", "t", "h">>
Wilson == <<"W", "i", "l", "s", "o", "n">>
drivers == <<Prem, Ajith, Wilson>>
Drivers == {drivers[i] : i \in DOMAIN drivers}

All == <<"A", "l", "l">>

\* ["All"] + drivers
FilterOptions == {All} \cup Drivers

\* (Out KM, In KM) readings tried in the form: In above, equal to and below
\* Out.
KmInputs == {<<95, 120>>, <<120, 120>>, <<120, 95>>}

\* (Out Time, In Time) pairs tried in the form: midnight out, 1:15 PM in.
FormTimes == {<<time_options[1][1], time_options[54][1]>>}

\* Values tried for the S.No. input: below, inside and above any listing.
\* The limits the widget is given are not relied on: which numbers are valid
\* is decided by the handler's own test against the S.No. column.
SnoInputs == 0..(MaxId + 1)

\* What the user typed in the free-text fields and picked as dates.
FormTexts ==
    {[invoice_no   |-> <<" ", "7", "1">>,
      customer     |-> <<"K", "R", " ">>,
      destination  |-> <<"O", "o", "t", "y">>,
      vehicle      |-> <<>>,
      disp_date    |-> [year |-> 2024, month |-> 3, day |-> 9],
      invoice_date |-> [year |-> 2024, month |-> 11, day |-> 30]]}

NoTxn == [op |-> "none"]

\* Widget values of a form nobody has filled in.
DefaultTexts ==
    [invoice_no   |-> <<>>,
     customer     |-> <<>>,
     destination  |-> <<>>,
     vehicle      |-> <<>>,
     disp_date    |-> [year |-> 2024, month |-> 1, day |-> 1],
     invoice_date |-> [year |-> 2024, month |-> 1, day |-> 1]]

---------------------------------------------------------------------------
(* The table and the connection.                                           *)

\* Columns of table trips.
Columns == {"id", "driver", "disp_date", "invoice_no", "customer",
            "destination", "invoice_date", "vehicle", "out_time", "in_time",
            "out_km", "in_km", "diff_km"}

\* Rows the connection reads: the committed ones and its own open statement.
Rows ==
    CASE txn.op = "insert" -> store \cup {txn.row}
      [] txn.op = "delete" -> {r \in store : r.id # txn.id}
      [] OTHER             -> store

\* Variant of add_trip whose column list leaves diff_km out.
add_trip_WithoutDiff(data) ==
    [op  |-> "insert",
     row |-> [id |-> seq + 1]
             @@ [c \in (DOMAIN data) \ {"diff_km"} |-> data[c]]]

\* INSERT INTO trips (...) VALUES (?, ...): AUTOINCREMENT gives the row an id
\* above every id assigned before.
add_trip(data) ==
    [op |-> "insert", row |-> [id |-> seq + 1] @@ data]

\* DELETE FROM trips WHERE id = ?
delete_trip_by_id(id) == [op |-> "delete", id |-> id]

\* Variant of Commit that commits nothing.
Commit_Forgotten == UNCHANGED <<store, seq, txn>>

\* conn.commit(): the open statement becomes part of the table.
Commit == /\ store' = Rows
          /\ seq' = IF txn.op = "insert" THEN txn.row.id ELSE seq
          /\ txn' = NoTxn

\* SELECT * FROM trips: the rows in rowid order.
RECURSIVE fetchall(_)
fetchall(rows) ==
    IF rows = {} THEN <<>>
    ELSE LET first == CHOOSE r \in rows : \A q \in rows : r.id <= q.id
         IN  <<first>> \o fetchall(rows \ {first})

\* pd.DataFrame(rows, columns=...): each row gets the index 0, 1, 2, ...
DataFrame(rows) == [i \in 1..Len(rows) |-> rows[i] @@ [index |-> i - 1]]

get_all_trips == DataFrame(fetchall(Rows))

---------------------------------------------------------------------------
(* The listing.                                                            *)

\* df[df["Driver"] == driver]: the matching rows, order and index kept
RECURSIVE WhereDriver(_, _)
WhereDriver(frame, driver) ==
    IF frame = <<>> THEN <<>>
    ELSE (IF Head(frame).driver = driver THEN <<Head(frame)>> ELSE <<>>)
         \o WhereDriver(Tail(frame), driver)

\* the rows of the chosen scope
Filtered(frame, choice) ==
    IF choice # All THEN WhereDriver(frame, choice) ELSE frame

\* Variant of reset_index that leaves the index of the unfiltered frame.
reset_index_Omitted(frame) == frame

\* filtered_df.reset_index(drop=True)
reset_index(frame) ==
    [i \in 1..Len(frame) |-> [frame[i] EXCEPT !.index = i - 1]]

\* filtered_df["S.No."] = filtered_df.index + 1, then both time columns
\* through format_time_12h
Numbered(frame) ==
    [i \in 1..Len(frame) |->
        [frame[i] EXCEPT !.out_time = format_time_12h(@),
                         !.in_time  = format_time_12h(@)]
        @@ [sno |-> frame[i].index + 1]]

\* the listing the page shows for a scope
Listing(frame, choice) == Numbered(reset_index(Filtered(frame, choice)))

cols_to_show == {"sno", "driver", "disp_date", "invoice_no", "customer",
                 "destination", "invoice_date", "vehicle", "out_time",
                 "in_time", "out_km", "in_km", "diff_km"}

\* filtered_df[cols_to_show]
Shown(frame) ==
    [i \in 1..Len(frame) |-> [c \in cols_to_show |-> frame[i][c]]]

---------------------------------------------------------------------------
(* The export.                                                             *)

\* df_export["Driver"].unique(): the drivers in order of first appearance
RECURSIVE unique(_)
unique(frame) ==
    IF frame = <<>> THEN <<>>
    ELSE LET init == unique(SubSeq(frame, 1, Len(frame) - 1))
             d    == frame[Len(frame)].driver
         IN  IF \E i \in 1..Len(init) : init[i] = d THEN init
             ELSE Append(init, d)

\* .drop(columns=["S.No."])
DropSno(frame) ==
    [i \in 1..Len(frame) |->
        [c \in (DOMAIN frame[i]) \ {"sno"} |-> frame[i][c]]]

\* driver[:31]
SheetName(driver) ==
    SubSeq(driver, 1, IF Len(driver) < 31 THEN Len(driver) ELSE 31)

\* Variant of convert_df_to_excel that loops over the fixed driver list.
convert_df_to_excel_AllDrivers(df_export) ==
    [i \in 1..Len(drivers) |->
        [sheet_name |-> SheetName(drivers[i]),
         rows       |-> DropSno(WhereDriver(df_export, drivers[i]))]]

\* one sheet per driver of df_export, in order of first appearance
convert_df_to_excel(df_export) ==
    LET names == unique(df_export)
    IN  [i \in 1..Len(names) |->
            [sheet_name |-> SheetName(names[i]),
             rows       |-> DropSno(WhereDriver(df_export, names[i]))]]

---------------------------------------------------------------------------
(* The script.                                                             *)

Init ==
    /\ store = {}
    /\ seq = 0
    /\ txn = NoTxn
    /\ pc = "idle"
    /\ submitted = FALSE
    /\ selected_driver = drivers[1]
    /\ out_time_24h = time_options[1][1]
    /\ in_time_24h = time_options[1][1]
    /\ out_km = 0
    /\ in_km = 0
    /\ texts = DefaultTexts
    /\ driver_filter = All
    /\ sno_to_delete = 1
    /\ delete_clicked = FALSE
    /\ df = <<>>
    /\ filtered_df = <<>>
    /\ trip_id = 0
    /\ excel_data = <<>>
    /\ page = {}
    /\ shown_time = <<>>

\* A user interaction starts a run of the script: the module level opens a
\* new connection (an open statement of the old one is lost), the page is
\* rendered anew and the widgets return their current values.  When Submit
\* was not pressed the run passes the form and reaches View Trips.
NewRun(sub, driver, out_t, in_t, out, in, tx, choice, sno, clicked) ==
    /\ pc = "idle"
    /\ pc' = IF sub THEN "form" ELSE "view"
    /\ txn' = NoTxn
    /\ page' = {}
    /\ trip_id' = 0
    /\ excel_data' = <<>>
    /\ submitted' = sub
    /\ selected_driver' = driver
    /\ out_time_24h' = out_t
    /\ in_time_24h' = in_t
    /\ out_km' = out
    /\ in_km' = in
    /\ texts' = tx
    /\ driver_filter' = choice
    /\ sno_to_delete' = sno
    /\ delete_clicked' = clicked
    /\ df' = <<>>
    /\ filtered_df' = <<>>
    /\ UNCHANGED <<store, seq, shown_time>>

\* A run none of whose buttons is pressed, with the form as it loads.
ViewRun(choice) ==
    NewRun(FALSE, drivers[1], time_options[1][1], time_options[1][1], 0, 0,
           DefaultTexts, choice, 1, FALSE)

\* The page is opened or reloaded: every widget has its default.
Reload == ViewRun(All)

\* Another scope is picked in the selectbox the last run rendered.
SelectFilter ==
    /\ "driver_filter" \in page
    /\ \E choice \in FilterOptions : ViewRun(choice)

\* Variant of DiffKm with the operands swapped.
DiffKm_Swapped(out, in) == IF out - in > 0 THEN out - in ELSE 0

\* diff_km = max(0, in_km - out_km)
DiffKm(out, in) == IF in - out > 0 THEN in - out ELSE 0

\* Variant of KmRejected without the check.
KmRejected_Never(out, in) == FALSE

\* if in_km < out_km: the submission is refused
KmRejected(out, in) == in < out

\* Submit is pressed on the filled form.  The scope selectbox keeps its
\* value when the last run rendered it and has its default otherwise.
SubmitForm ==
    \E driver \in Drivers, times \in FormTimes, km \in KmInputs,
       tx \in FormTexts :
        /\ KmRejected(km[1], km[2]) \/ seq < MaxId
        /\ NewRun(TRUE, driver, times[1], times[2], km[1], km[2], tx,
                  IF "driver_filter" \in page THEN driver_filter ELSE All,
                  1, FALSE)

\* Delete Trip is pressed, with some number in the S.No. input; the button
\* is there to press only when the last run rendered it.
ClickDelete ==
    /\ "delete_button" \in page
    /\ \E sno \in SnoInputs :
           NewRun(FALSE, drivers[1], time_options[1][1], time_options[1][1],
                  0, 0, DefaultTexts, driver_filter, sno, TRUE)

\* The tuple handed to add_trip.
TripData ==
    [driver       |-> selected_driver,
     disp_date    |-> FormatDate(texts.disp_date),
     invoice_no   |-> Strip(texts.invoice_no),
     customer     |-> Strip(texts.customer),
     destination  |-> Strip(texts.destination),
     invoice_date |-> FormatDate(texts.invoice_date),
     vehicle      |-> Strip(texts.vehicle),
     out_time     |-> out_time_24h,
     in_time      |-> in_time_24h,
     out_km       |-> out_km,
     in_km        |-> in_km,
     diff_km      |-> DiffKm(out_km, in_km)]

\* Submitted with In KM below Out KM: st.error, and the script goes on.
RejectTrip ==
    /\ pc = "form"
    /\ submitted
    /\ KmRejected(out_km, in_km)
    /\ page' = page \cup {"error_km"}
    /\ pc' = "view"
    /\ UNCHANGED <<store, seq, txn, widget_vars, df, filtered_df, trip_id,
                   excel_data, shown_time>>

\* Submitted and accepted: add_trip executes the INSERT.
InsertTrip ==
    /\ pc = "form"
    /\ submitted
    /\ ~KmRejected(out_km, in_km)
    /\ txn' = add_trip(TripData)
    /\ pc' = "add_commit"
    /\ UNCHANGED <<store, seq, widget_vars, df, filtered_df, trip_id,
                   excel_data, page, shown_time>>

\* add_trip commits.
AddCommit ==
    /\ pc = "add_commit"
    /\ Commit
    /\ pc' = "add_success"
    /\ UNCHANGED <<widget_vars, df, filtered_df, trip_id, excel_data, page,
                   shown_time>>

\* st.success and st.stop(): the run ends above the View Trips section.
AddSuccess ==
    /\ pc = "add_success"
    /\ page' = page \cup {"success_add"}
    /\ pc' = "idle"
    /\ UNCHANGED <<store, seq, txn, widget_vars, df, filtered_df, trip_id,
                   excel_data, shown_time>>

\* View Trips: read the table, filter by the chosen scope, number the rows
\* and show them with the S.No. input and the Delete Trip button.
ViewTrips ==
    /\ pc = "view"
    /\ df' = get_all_trips
    /\ IF df' = <<>>
       THEN /\ page' = page \cup {"info_no_trips"}
            /\ filtered_df' = <<>>
            /\ pc' = "idle"
       ELSE IF Filtered(df', driver_filter) = <<>>
       THEN /\ page' = page \cup {"driver_filter", "info_no_records"}
            /\ filtered_df' = <<>>
            /\ pc' = "idle"
       ELSE /\ page' = page \cup {"driver_filter", "listing", "sno_input",
                                  "delete_button"}
            /\ filtered_df' = Listing(df', driver_filter)
            /\ pc' = "delete"
    /\ UNCHANGED <<store, seq, txn, widget_vars, trip_id, excel_data,
                   shown_time>>

\* Variant of SnoPresent that looks the number up in the id column.
SnoPresent_InIdColumn(frame, sno) == \E i \in 1..Len(frame) : frame[i].id = sno

\* sno_to_delete in filtered_df["S.No."].values
SnoPresent(frame, sno) == \E i \in 1..Len(frame) : frame[i].sno = sno

\* Variant of IdsWithSno that takes the S.No. itself for the id.
IdsWithSno_SnoAsId(frame, sno) == <<sno>>

\* Variant of IdsWithSno that selects by the 0-based index label, not by
\* the S.No. column.
IdsWithSno_ByIndex(frame, sno) ==
    IF \E i \in 1..Len(frame) : frame[i].index = sno
    THEN <<frame[CHOOSE i \in 1..Len(frame) : frame[i].index = sno].id>>
    ELSE <<>>

\* filtered_df.loc[filtered_df["S.No."] == sno_to_delete, "id"].values
RECURSIVE IdsWithSno(_, _)
IdsWithSno(frame, sno) ==
    IF frame = <<>> THEN <<>>
    ELSE (IF Head(frame).sno = sno THEN <<Head(frame).id>> ELSE <<>>)
         \o IdsWithSno(Tail(frame), sno)

\* excel_data = convert_df_to_excel(filtered_df[cols_to_show]) and the
\* download button, which end a run that did not stop before.
RenderExport ==
    /\ excel_data' = convert_df_to_excel(Shown(filtered_df))
    /\ pc' = "idle"

\* The button was not pressed in this run: the script goes on to the export.
Export ==
    /\ pc = "delete"
    /\ ~delete_clicked
    /\ RenderExport
    /\ page' = page \cup {"download_button"}
    /\ UNCHANGED <<store, seq, txn, widget_vars, df, filtered_df, trip_id,
                   shown_time>>

\* Pressed with a number that is no S.No. of the listing: st.error, and the
\* script goes on to the export.
RefuseDelete ==
    /\ pc = "delete"
    /\ delete_clicked
    /\ ~SnoPresent(filtered_df, sno_to_delete)
    /\ RenderExport
    /\ page' = page \cup {"error_sno", "download_button"}
    /\ UNCHANGED <<store, seq, txn, widget_vars, df, filtered_df, trip_id,
                   shown_time>>

\* Pressed with an S.No. of the listing: resolve it to the id of its row and
\* execute the DELETE.  values[0] of an empty selection raises and ends the
\* run.
DeleteTrip ==
    /\ pc = "delete"
    /\ delete_clicked
    /\ SnoPresent(filtered_df, sno_to_delete)
    /\ LET values == IdsWithSno(filtered_df, sno_to_delete)
       IN  IF values = <<>>
           THEN /\ page' = page \cup {"exception"}
                /\ pc' = "idle"
                /\ UNCHANGED <<txn, trip_id>>
           ELSE /\ trip_id' = values[1]
                /\ txn' = delete_trip_by_id(values[1])
                /\ pc' = "del_commit"
                /\ UNCHANGED page
    /\ UNCHANGED <<store, seq, widget_vars, df, filtered_df, excel_data,
                   shown_time>>

\* delete_trip_by_id commits.
DeleteCommit ==
    /\ pc = "del_commit"
    /\ Commit
    /\ pc' = "del_success"
    /\ UNCHANGED <<widget_vars, df, filtered_df, trip_id, excel_data, page,
                   shown_time>>

\* st.success and st.stop(): the run ends before the export.
DeleteSuccess ==
    /\ pc = "del_success"
    /\ page' = page \cup {"success_delete"}
    /\ pc' = "idle"
    /\ UNCHANGED <<store, seq, txn, widget_vars, df, filtered_df, trip_id,
                   excel_data, shown_time>>

Next ==
    \/ Reload
    \/ SelectFilter
    \/ SubmitForm
    \/ ClickDelete
    \/ RejectTrip
    \/ InsertTrip
    \/ AddCommit
    \/ AddSuccess
    \/ ViewTrips
    \/ Export
    \/ RefuseDelete
    \/ DeleteTrip
    \/ DeleteCommit
    \/ DeleteSuccess

Spec == Init /\ [][Next]_vars

---------------------------------------------------------------------------
(* Time options on their own: every option of the Out Time selectbox can   *)
(* be the stored value, and the listing renders it through                 *)
(* format_time_12h.                                                        *)

InitTime ==
    /\ store = {}
    /\ seq = 0
    /\ txn = NoTxn
    /\ pc = "idle"
    /\ submitted = FALSE
    /\ selected_driver = drivers[1]
    /\ out_time_24h \in TimeValues
    /\ in_time_24h = time_options[1][1]
    /\ out_km = 0
    /\ in_km = 0
    /\ texts = DefaultTexts
    /\ driver_filter = All
    /\ sno_to_delete = 1
    /\ delete_clicked = FALSE
    /\ df = <<>>
    /\ filtered_df = <<>>
    /\ trip_id = 0
    /\ excel_data = <<>>
    /\ page = {}
    /\ shown_time = <<>>

\* filtered_df["Out Time"].apply(format_time_12h), on one cell
FormatOutTime ==
    /\ shown_time = <<>>
    /\ shown_time' = format_time_12h(out_time_24h)
    /\ UNCHANGED <<store, seq, txn, pc, widget_vars, df, filtered_df,
                   trip_id, excel_data, page>>

NextTime == FormatOutTime

TimeSpec == InitTime /\ [][NextTime]_vars

---------------------------------------------------------------------------
(* Vocabulary of the properties.                                           *)

\* The persisted records of a scope: one driver's, or everybody's for "All".
ScopeRows(choice) == {r \in store : choice = All \/ r.driver = choice}

\* Position of record r among the records S in order of increasing id.
Rank(r, S) == Cardinality({q \in S : q.id <= r.id})

\* The table columns of a frame row, as a record of the table.
AsRow(x) == [c \in Columns |-> x[c]]

\* The rows a frame holds, as records of the table.
FrameRows(frame) == {AsRow(frame[i]) : i \in 1..Len(frame)}

\* The ids of the persisted records.
StoredIds == {r.id : r \in store}

\* The listing a run starting now would show for a scope.
Relisted(choice) == Listing(DataFrame(fetchall(store)), choice)

\* True when sheet row x is record r as exported: every column but the id,
\* the two times in 12-hour form.
Exports(x, r) ==
    /\ DOMAIN x = Columns \ {"id"}
    /\ \A c \in Columns \ {"id", "out_time", "in_time"} : x[c] = r[c]
    /\ x.out_time = format_time_12h(r.out_time)
    /\ x.in_time = format_time_12h(r.in_time)

\* True when record r holds what the form widgets hold.
IsSubmitted(r) ==
    /\ DOMAIN r = Columns
    /\ r.driver = selected_driver
    /\ r.disp_date = FormatDate(texts.disp_date)
    /\ r.invoice_no = Strip(texts.invoice_no)
    /\ r.customer = Strip(texts.customer)
    /\ r.destination = Strip(texts.destination)
    /\ r.invoice_date = FormatDate(texts.invoice_date)
    /\ r.vehicle = Strip(texts.vehicle)
    /\ r.out_time = out_time_24h
    /\ r.in_time = in_time_24h
    /\ r.out_km = out_km
    /\ r.in_km = in_km
    /\ r.diff_km = in_km - out_km

\* True when listing row x shows record r: same id and same values, the two
\* times in 12-hour form.
Shows(x, r) ==
    /\ x.id = r.id
    /\ \A c \in Columns \ {"id", "out_time", "in_time"} : x[c] = r[c]
    /\ x.out_time = format_time_12h(r.out_time)
    /\ x.in_time = format_time_12h(r.in_time)

---------------------------------------------------------------------------
(* Properties.                                                             *)

\* C1: every persisted trip record has diff_km = max(0, in_km - out_km),
\* hence diff_km >= 0, whatever Adds and deletes produced the ledger.
C1_DiffKmIsClampedDifference ==
    \A r \in store :
        /\ r.diff_km >= 0
        /\ r.in_km >= r.out_km => r.diff_km = r.in_km - r.out_km
        /\ r.in_km < r.out_km => r.diff_km = 0

\* C1 witness: after Adds and a delete the ledger holds a record with a
\* positive difference and one with difference 0.
C1_Witness ==
    /\ seq > Cardinality(store)
    /\ \E r, q \in store : r.diff_km > 0 /\ q.diff_km = 0

\* C2 as stated: once the run of a submission for Ajith with Out KM 120
\* and In KM 95 on an otherwise empty ledger has ended, the record is
\* persisted with diff_km 0 and List("Ajith") shows it as S.No. 1.
C2_LowerInKmIsStoredWithZeroDiff ==
    ( /\ pc = "idle"
      /\ submitted
      /\ selected_driver = Ajith
      /\ out_km = 120
      /\ in_km = 95
      /\ \A r \in store :
             r.driver = Ajith /\ r.out_km = 120 /\ r.in_km = 95 )
    => \E r \in store :
           /\ r.diff_km = 0
           /\ LET list == Listing(DataFrame(fetchall(store)), Ajith)
              IN  Len(list) = 1 /\ list[1].id = r.id /\ list[1].sno = 1

\* C2 amended: a submission whose In KM is below its Out KM is refused: the
\* form handler shows the error and no success, executes no statement and
\* leaves the table and the id counter as they were; no record with In KM
\* below Out KM is ever persisted, so no listing shows one.
C2_LowerInKmIsRejected ==
    /\ [](\A r \in store : r.in_km >= r.out_km)
    /\ []((submitted /\ in_km < out_km /\ pc # "form")
              => ("error_km" \in page /\ "success_add" \notin page
                  /\ txn = NoTxn))
    /\ [][(pc = "form" /\ submitted /\ in_km < out_km)
              => (store' = store /\ seq' = seq /\ txn' = NoTxn
                  /\ "error_km" \in page')]_vars

\* C2 witness: Ajith's submission with Out KM 120 and In KM 95 on the empty
\* ledger ended with the error, and the ledger is still empty.
C2_Witness ==
    /\ pc = "idle"
    /\ submitted
    /\ selected_driver = Ajith
    /\ out_km = 120
    /\ in_km = 95
    /\ "error_km" \in page
    /\ "info_no_trips" \in page
    /\ store = {}
    /\ seq = 0

\* C3: the listing of a scope (one driver or "All") holds exactly the
\* persisted records of the scope, in order of increasing id, numbered
\* 1..N without gap or repeat; the page reports "no trips" or "no records"
\* only for an empty table or scope.
C3_ListingIsScopeInInsertionOrder ==
    /\ (pc = "delete" \/ (pc = "idle" /\ "download_button" \in page))
         => LET S == ScopeRows(driver_filter)
            IN  /\ Len(filtered_df) = Cardinality(S)
                /\ \A i \in 1..Len(filtered_df) :
                       /\ filtered_df[i].sno = i
                       /\ \E r \in S :
                              Shows(filtered_df[i], r) /\ Rank(r, S) = i
    /\ "info_no_trips" \in page => store = {}
    /\ "info_no_records" \in page
         => (ScopeRows(driver_filter) = {} /\ store # {})

\* C3 witness: two records of Prem are listed as 1 and 2 while a record of
\* another driver with a smaller id is in the table.
C3_Witness ==
    /\ pc = "delete"
    /\ driver_filter = Prem
    /\ Len(filtered_df) = 2
    /\ filtered_df[1].sno = 1
    /\ filtered_df[2].sno = 2
    /\ \E r \in store : r.driver # Prem /\ r.id < filtered_df[1].id

\* C4: a delete with 1 <= k <= N removes exactly the record listed at
\* position k and leaves every other record of every driver as it was;
\* listing the scope again gives the other N-1 rows in the same order,
\* numbered 1..N-1.
C4_DeleteRemovesListedRecord ==
    pc = "del_success"
      => LET N == Len(filtered_df)
             k == sno_to_delete
             after == Relisted(driver_filter)
         IN  /\ k \in 1..N
             /\ store = {r \in FrameRows(df) : r.id # filtered_df[k].id}
             /\ Cardinality(store) = Len(df) - 1
             /\ Len(after) = N - 1
             /\ \A i \in 1..(N - 1) :
                    /\ after[i].sno = i
                    /\ after[i].id # filtered_df[k].id
                    /\ after[i] =
                         [filtered_df[IF i < k THEN i ELSE i + 1]
                            EXCEPT !.sno = i, !.index = i - 1]

\* C4 witness: with one driver selected, row 1 of a listing of two was
\* deleted, and its id is not its S.No.
C4_Witness ==
    /\ pc = "del_success"
    /\ driver_filter # All
    /\ Len(filtered_df) = 2
    /\ sno_to_delete = 1
    /\ trip_id # sno_to_delete
    /\ Cardinality(store) = 2

\* C5 as stated: a delete request whose number is outside 1..N for its
\* scope never reaches the DELETE, and its run ends with the error message
\* and without success.
C5_OutOfRangeDeleteShowsError ==
    LET N == Cardinality(ScopeRows(driver_filter))
    IN  /\ pc = "del_commit" => sno_to_delete \in 1..N
        /\ (pc = "idle" /\ delete_clicked /\ trip_id = 0
              /\ sno_to_delete \notin 1..N)
             => ("error_sno" \in page /\ "success_delete" \notin page)

\* C5 amended: a delete request whose number is outside 1..N for its scope
\* never reaches the DELETE; its run shows no success and leaves the table
\* as the run read it, so the scope lists as before.  For N >= 1 the run
\* shows the error message; for N = 0 (Delete pressed on a page rendered
\* before the scope became empty) it shows the "no trips" or "no records"
\* information instead.
C5_OutOfRangeDeleteChangesNothing ==
    LET N == Cardinality(ScopeRows(driver_filter))
    IN  /\ pc = "del_commit" => sno_to_delete \in 1..N
        /\ (pc = "idle" /\ delete_clicked /\ trip_id = 0
              /\ sno_to_delete \notin 1..N)
             => /\ "success_delete" \notin page
                /\ txn = NoTxn
                /\ store = FrameRows(df)
                /\ IF N >= 1
                   THEN /\ "error_sno" \in page
                        /\ Relisted(driver_filter) = filtered_df
                   ELSE /\ "error_sno" \notin page
                        /\ "info_no_trips" \in page
                             \/ "info_no_records" \in page

\* C5 witness: Delete was pressed with a number above a listing of two, and
\* the run ended with the error.
C5_Witness ==
    /\ pc = "idle"
    /\ delete_clicked
    /\ Len(filtered_df) = 2
    /\ sno_to_delete = 3
    /\ "error_sno" \in page
    /\ Cardinality(store) = 3

C7_ExportHasOneSheetPerDriver ==
    (pc = "idle" /\ "download_button" \in page)
      => LET S == ScopeRows(driver_filter)
         IN  /\ \A i \in 1..Len(excel_data) :
                    \E r \in S : excel_data[i].sheet_name = r.driver
             /\ \A d \in Drivers :
                    LET Sd  == {r \in S : r.driver = d}
                        idx == {i \in 1..Len(excel_data) :
                                   excel_data[i].sheet_name = d}
                    IN  IF Sd = {} THEN idx = {}
                        ELSE /\ Cardinality(idx) = 1
                             /\ LET sh == excel_data[CHOOSE i \in idx : TRUE].rows
                                IN  /\ Len(sh) = Cardinality(Sd)
                                    /\ \A j \in 1..Len(sh) :
                                           \E r \in Sd :
                                               /\ Rank(r, Sd) = j
                                               /\ Exports(sh[j], r)

\* C7 witness: the export of "All" has two sheets, one of them with two
\* rows, while the third driver has no record.
C7_Witness ==
    /\ pc = "idle"
    /\ "download_button" \in page
    /\ driver_filter = All
    /\ Len(excel_data) = 2
    /\ Len(excel_data[1].rows) = 1
    /\ Len(excel_data[2].rows) = 2

\* C8: a submission is accepted or refused as a whole.  Every persisted
\* record has all columns; a refused submission changes no record; the run
\* of an accepted one changes the table in one step only, which adds one
\* new record with a fresh id holding the submitted values, also when an
\* equal record exists.
C8_SubmissionIsAtomic ==
    /\ [](\A r \in store : DOMAIN r = Columns)
    /\ [][("error_km" \in page \/ "error_km" \in page') => store' = store]_vars
    /\ [][(submitted /\ pc # "add_commit") => store' = store]_vars
    /\ [][(submitted /\ pc = "add_commit")
             => \E r \in store' :
                    /\ DOMAIN r = Columns
                    /\ r \notin store
                    /\ r.id \notin StoredIds
                    /\ IsSubmitted(r)
                    /\ store' = store \cup {r}]_vars

\* C8 witness: an accepted submission has just added a record equal, but
\* for its id, to one already there.
C8_Witness ==
    /\ pc = "add_success"
    /\ \E r, q \in store :
           /\ r.id = seq
           /\ q.id # r.id
           /\ [q EXCEPT !.id = r.id] = r

\* C9: when the success message of an Add or of a delete is on the page the
\* connection has nothing uncommitted: the added record is in the table,
\* the deleted one is not, and the listing of a new run shows that.
C9_SuccessMeansCommitted ==
    /\ "success_add" \in page
         => /\ txn = NoTxn
            /\ \E r \in store : r.id = seq /\ IsSubmitted(r)
            /\ \E i \in 1..Len(Relisted(selected_driver)) :
                   Relisted(selected_driver)[i].id = seq
    /\ "success_delete" \in page
         => /\ txn = NoTxn
            /\ trip_id \in {r.id : r \in FrameRows(df)}
            /\ trip_id \notin StoredIds
            /\ \A i \in 1..Len(Relisted(All)) : Relisted(All)[i].id # trip_id

\* C9 witness: the success message of an Add is on the page after an
\* earlier record was deleted.
C9_Witness ==
    /\ pc = "idle"
    /\ "success_add" \in page
    /\ seq = 2
    /\ Cardinality(store) = 1

\* C10: there are 96 distinct time options, hours 0..23 with minutes 0, 15,
\* 30 and 45; format_time_12h shows hour 0 as 12 AM, 1..11 as the same hour
\* AM, 12 as 12 PM and 13..23 as hour-12 PM with the minute unchanged, and no
\* two options share a 12-hour form.
C10_TimeOptionsAndTwelveHourForm ==
    /\ Len(time_options) = 96
    /\ Cardinality(TimeValues) = 96
    /\ TimeValues = {Pad2(h) \o <<":">> \o Pad2(m) :
                        h \in 0..23, m \in {0, 15, 30, 45}}
    /\ \A i \in 1..Len(time_options) :
           time_options[i][2] = format_time_12h(time_options[i][1])
    /\ \A a, b \in TimeValues :
           format_time_12h(a) = format_time_12h(b) => a = b
    /\ shown_time # <<>>
         => \E h \in 0..23, m \in {0, 15, 30, 45} :
                /\ out_time_24h = Pad2(h) \o <<":">> \o Pad2(m)
                /\ LET h12 == CASE h = 0       -> 12
                                [] h \in 1..11 -> h
                                [] h = 12      -> 12
                                [] OTHER       -> h - 12
                   IN  shown_time =
                         Pad2(h12) \o <<":">> \o Pad2(m) \o <<" ">>
                         \o (IF h <= 11 THEN <<"A", "M">> ELSE <<"P", "M">>)

\* C10 witness: the stored 00:00 is shown as 12:00 AM.
C10_Witness ==
    /\ out_time_24h = <<"0", "0", ":", "0", "0">>
    /\ shown_time = <<"1", "2", ":", "0", "0", " ", "A", "M">>

===========================================================================
